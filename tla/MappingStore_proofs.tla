-------------------------- MODULE MappingStore_proofs --------------------------
(***************************************************************************)
(* What the configuration files hold, however many sessions load, change   *)
(* and save them, and what that means for a workbook read with them: for   *)
(* any headers, fields, kinds of sources, rules and sessions.              *)
(***************************************************************************)
EXTENDS MappingStore, FiniteSetTheorems, WellFoundedInduction, TLAPS

USE SheetAssumption, CellAssumption, StoreAssumption

(* A mapping somebody confirmed on a sheet. *)
IsConfirmed(m) ==
  \E sheet \in Sheets : \E column \in Choices(sheet) : m = Confirmed(sheet, column)

EntryFits(k, entry) ==
  \/ entry = NoEntry
  \/ k \in Kinds /\ IsConfirmed(entry)
  \/ k \in Fields /\ entry \in RuleChoices

Chosen(s) == work[s].step \in {"open", "write"}

(* What a session is about to save is an entry of the file it loaded. *)
KeysOK ==
  \A s \in Sessions : Chosen(s) =>
    /\ work[s].key \in Keys
    /\ FileOf(work[s].key) = work[s].file
    /\ work[s].entries[work[s].key] # NoEntry

(* Every entry was confirmed. *)
EntriesOK ==
  /\ \A f \in Files, k \in Keys : EntryFits(k, file[f].entries[k])
  /\ \A s \in Sessions : work[s] # Idle => \A k \in Keys : EntryFits(k, work[s].entries[k])

(* An entry that a session loaded is still the one saved last, or the session *)
(* knows that it missed a later one.                                         *)
HeldSaved ==
  \A s \in Sessions : work[s] # Idle =>
    \A k \in Keys : FileOf(k) = work[s].file =>
      \/ work[s].entries[k] = saved[k]
      \/ k \in work[s].missed \cup overwritten
      \/ Chosen(s) /\ k = work[s].key

(* Nothing is in a file, or in the hands of a session, that nobody saved. *)
KnownOK ==
  /\ \A f \in Files, k \in Keys : file[f].entries[k] # NoEntry => saved[k] # NoEntry
  /\ \A s \in Sessions : work[s] # Idle =>
       \A k \in Keys : work[s].entries[k] # NoEntry =>
         saved[k] # NoEntry \/ (Chosen(s) /\ k = work[s].key)

Inv ==
  TypeOK /\ KeysOK /\ EntriesOK /\ DamageExplained /\ HeldSaved /\ SavedIsStored /\ KnownOK

------------------------------------------------------------------------------
(* Every key has its file. *)
LEMMA FileOfType == \A k \in Keys : FileOf(k) \in Files
  BY DEF FileOf, Files

(* A mapping confirmed on a sheet is a mapping. *)
LEMMA ConfirmedType ==
  ASSUME NEW m, IsConfirmed(m)
  PROVE  m \in SourceMapping
<1>1. PICK sheet \in Sheets : \E column \in Choices(sheet) : m = Confirmed(sheet, column)
  BY DEF IsConfirmed
<1>2. PICK column \in Choices(sheet) : m = Confirmed(sheet, column)
  BY <1>1
<1>3. Raw(sheet) \subseteq Headers
  <2>1. sheet \in Seq(Headers)
    OBVIOUS
  <2> QED
    BY <2>1 DEF Raw
<1>4. Signature(sheet) \subseteq Headers
  BY <1>3 DEF Signature, Names
<1>5. column \in [Fields -> Headers \cup {Unmapped}]
  BY <1>4 DEF Choices
<1> QED
  BY <1>2, <1>3, <1>4, <1>5 DEF Confirmed, SourceMapping

(* An entry that fits a key is an entry. *)
LEMMA FitsType ==
  ASSUME NEW k, NEW entry, EntryFits(k, entry)
  PROVE  entry \in SourceMapping \cup StatusValueRule \cup {NoEntry}
BY ConfirmedType DEF EntryFits

(* A session at rest holds nothing. *)
LEMMA IdleIsNot ==
  /\ Idle \notin Holding
  /\ Idle.step = "idle"
BY DEF Idle, Holding

(* A configuration without entries is one. *)
LEMMA NoEntriesType == NoEntries \in Entries /\ \A k \in Keys : NoEntries[k] = NoEntry
BY DEF NoEntries, Entries

(* The states of a file have their types. *)
LEMMA ContentTypes ==
  /\ Missing \in Content /\ Emptied \in Content /\ Garbled \in Content
  /\ \A entries \in Entries : Whole(entries) \in Content
BY NoEntriesType DEF Missing, Emptied, Garbled, Whole, Content

(* To begin with there is no file, and nothing was saved. *)
LEMMA Initially == Init => Inv
<1> SUFFICES ASSUME Init PROVE Inv
  OBVIOUS
<1> USE NoEntriesType, IdleIsNot DEF Init
<1>1. TypeOK
  BY ContentTypes DEF TypeOK
<1>2. KeysOK
  BY DEF KeysOK, Chosen
<1>3. EntriesOK
  BY DEF EntriesOK, EntryFits, Missing
<1>4. DamageExplained
  BY DEF DamageExplained, Readable, Missing
<1>5. HeldSaved /\ KnownOK
  BY DEF HeldSaved, KnownOK, Missing
<1>6. SavedIsStored
  BY FileOfType DEF SavedIsStored, Missing
<1> QED
  BY <1>1, <1>2, <1>3, <1>4, <1>5, <1>6 DEF Inv

------------------------------------------------------------------------------
(* A new workbook changes no file. *)
LEMMA ReplaceKeeps ==
  ASSUME Inv, NEW b \in Sheets \cup {Unopenable}, Replace(b)
  PROVE  Inv'
<1> USE DEF Inv, Replace
<1>1. TypeOK'
  BY DEF TypeOK
<1>2. KeysOK' /\ EntriesOK' /\ HeldSaved' /\ KnownOK'
  BY DEF KeysOK, EntriesOK, HeldSaved, KnownOK, Chosen
<1>3. DamageExplained' /\ SavedIsStored'
  BY DEF DamageExplained, SavedIsStored, Readable, Writing
<1> QED
  BY <1>1, <1>2, <1>3

(* What is loaded from a readable file is what was saved last. *)
LEMMA LoadKeeps ==
  ASSUME Inv, NEW s \in Sessions, NEW f \in Files, Load(s, f)
  PROVE  Inv'
<1> DEFINE w == [step |-> "edit", file |-> f, entries |-> file[f].entries,
                 key |-> NoEntry, missed |-> {}]
<1>1. /\ work' = [work EXCEPT ![s] = w]
      /\ UNCHANGED <<file, book, changes, saved, overwritten, damaged>>
      /\ Readable(f)
  BY DEF Load, Readable
<1>2. TypeOK /\ w \in Holding
  BY DEF Inv, TypeOK, Content, Holding
<1>3. work'[s] = w /\ \A t \in Sessions \ {s} : work'[t] = work[t]
  BY <1>1, <1>2 DEF TypeOK
<1>4. w.step = "edit" /\ w.file = f /\ w.entries = file[f].entries /\ w.missed = {}
  OBVIOUS
<1> HIDE DEF w
<1>5. TypeOK'
  BY <1>1, <1>2 DEF TypeOK
<1>6. KeysOK'
  BY <1>1, <1>3, <1>4 DEF Inv, KeysOK, Chosen
<1>7. EntriesOK'
  BY <1>1, <1>3, <1>4 DEF Inv, EntriesOK
<1>8. DamageExplained'
  BY <1>1, <1>3, IdleIsNot DEF Inv, DamageExplained, Readable, Writing, Load
<1>9. HeldSaved'
  BY <1>1, <1>3, <1>4 DEF Inv, HeldSaved, SavedIsStored, Chosen
<1>10. SavedIsStored'
  BY <1>1 DEF Inv, SavedIsStored, Readable
<1>11. KnownOK'
  BY <1>1, <1>3, <1>4 DEF Inv, KnownOK, Chosen
<1> QED
  BY <1>5, <1>6, <1>7, <1>8, <1>9, <1>10, <1>11 DEF Inv

(* A change concerns the one key, and an entry that fits it. *)
LEMMA ChangeKeeps ==
  ASSUME Inv, NEW s \in Sessions, NEW k \in Keys, NEW entry,
         EntryFits(k, entry), entry # NoEntry, Change(s, k, entry)
  PROVE  Inv'
<1> DEFINE w == [work[s] EXCEPT !.step = "open", !.key = k,
                                !.entries = [work[s].entries EXCEPT ![k] = entry]]
<1>1. /\ work' = [work EXCEPT ![s] = w]
      /\ changes < MaxSaves /\ changes' = changes + 1
      /\ UNCHANGED <<file, book, saved, overwritten, damaged>>
      /\ work[s].step = "edit" /\ work[s].file = FileOf(k)
  BY DEF Change, Upsert
<1>2. TypeOK /\ work[s] \in Holding /\ work[s] # Idle
  BY <1>1, IdleIsNot DEF Inv, TypeOK
<1>3. w \in Holding
  BY <1>2, FitsType DEF Holding, Entries
<1>4. /\ w.step = "open" /\ w.key = k /\ w.file = FileOf(k) /\ w.missed = work[s].missed
      /\ w.entries[k] = entry
      /\ \A j \in Keys \ {k} : w.entries[j] = work[s].entries[j]
  BY <1>1, <1>2 DEF Holding, Entries
<1>5. work'[s] = w /\ \A t \in Sessions \ {s} : work'[t] = work[t]
  BY <1>1, <1>2 DEF TypeOK
<1> HIDE DEF w
<1>6. TypeOK'
  BY <1>1, <1>2, <1>3 DEF TypeOK
<1>7. KeysOK'
  BY <1>1, <1>4, <1>5 DEF Inv, KeysOK, Chosen
<1>8. EntriesOK'
  BY <1>1, <1>2, <1>4, <1>5 DEF Inv, EntriesOK
<1>9. DamageExplained'
  BY <1>1, <1>5 DEF Inv, DamageExplained, Readable, Writing
<1>10. HeldSaved'
  BY <1>1, <1>2, <1>4, <1>5 DEF Inv, HeldSaved, Chosen
<1>11. SavedIsStored'
  BY <1>1 DEF Inv, SavedIsStored, Readable
<1>12. KnownOK'
  BY <1>1, <1>2, <1>4, <1>5 DEF Inv, KnownOK, Chosen
<1> QED
  BY <1>6, <1>7, <1>8, <1>9, <1>10, <1>11, <1>12 DEF Inv

(* While the file is emptied, somebody is writing it. *)
LEMMA TruncateKeeps ==
  ASSUME Inv, NEW s \in Sessions, Truncate(s)
  PROVE  Inv'
<1> DEFINE f == work[s].file
           w == [work[s] EXCEPT !.step = "write"]
<1>1. /\ work' = [work EXCEPT ![s] = w]
      /\ file' = [file EXCEPT ![f] = Emptied]
      /\ UNCHANGED <<book, changes, saved, overwritten, damaged>>
      /\ work[s].step = "open"
  BY DEF Truncate
<1>2. TypeOK /\ work[s] \in Holding /\ work[s] # Idle
  BY <1>1, IdleIsNot DEF Inv, TypeOK
<1>3. /\ w \in Holding /\ w.step = "write" /\ w.file = f /\ w.key = work[s].key
      /\ w.entries = work[s].entries /\ w.missed = work[s].missed
  BY <1>2 DEF Holding
<1>4. work'[s] = w /\ \A t \in Sessions \ {s} : work'[t] = work[t]
  BY <1>1, <1>2 DEF TypeOK
<1>5. /\ f \in Files /\ file'[f] = Emptied
      /\ \A g \in Files \ {f} : file'[g] = file[g]
  BY <1>1, <1>2 DEF TypeOK, Holding
<1> HIDE DEF w, f
<1>6. TypeOK'
  BY <1>1, <1>2, <1>3, ContentTypes DEF TypeOK
<1>7. KeysOK'
  BY <1>1, <1>3, <1>4 DEF Inv, KeysOK, Chosen, f
<1>8. EntriesOK'
  BY <1>2, <1>3, <1>4, <1>5, NoEntriesType DEF Inv, EntriesOK, EntryFits, Emptied
<1>9. DamageExplained'
  BY <1>1, <1>3, <1>4, <1>5 DEF Inv, DamageExplained, Readable, Writing
<1>10. HeldSaved'
  BY <1>1, <1>2, <1>3, <1>4 DEF Inv, HeldSaved, Chosen, f
<1>11. SavedIsStored'
  BY <1>1, <1>5, FileOfType DEF Inv, SavedIsStored, Readable, Emptied
<1>12. KnownOK'
  BY <1>1, <1>2, <1>3, <1>4, <1>5, NoEntriesType DEF Inv, KnownOK, Chosen, Emptied
<1> QED
  BY <1>6, <1>7, <1>8, <1>9, <1>10, <1>11, <1>12 DEF Inv

(* Whole text in a file is readable, and garbled text is not. *)
LEMMA Readability ==
  /\ Garbled.state = "garbled" /\ Garbled.entries = NoEntries
  /\ \A entries : /\ Whole(entries).state = "whole" /\ Whole(entries).entries = entries
                  /\ Whole(entries) # Garbled
BY DEF Garbled, Whole

(* A save that lands: its key is stored, and what it left out is overwritten. *)
LEMMA SaveKeeps ==
  ASSUME Inv, NEW s \in Sessions, work[s].step = "write",
         file' = [file EXCEPT ![work[s].file] = Whole(work[s].entries)],
         Saved(s), UNCHANGED <<book, changes, damaged>>
  PROVE  Inv'
<1> DEFINE w == work[s]
<1>1. TypeOK /\ w \in Holding /\ w # Idle /\ Chosen(s)
  BY IdleIsNot DEF Inv, TypeOK, Chosen
<1>2. /\ w.file \in Files /\ w.key \in Keys /\ FileOf(w.key) = w.file
      /\ w.entries \in Entries /\ w.missed \subseteq Keys /\ w.entries[w.key] # NoEntry
  BY <1>1 DEF Holding, Inv, KeysOK
<1>3. /\ file'[w.file] = Whole(w.entries)
      /\ \A g \in Files \ {w.file} : file'[g] = file[g]
  BY <1>1, <1>2 DEF TypeOK
<1>4. /\ saved'[w.key] = w.entries[w.key]
      /\ \A k \in Keys \ {w.key} : saved'[k] = saved[k]
      /\ overwritten' = (overwritten \cup w.missed) \ {w.key}
  BY <1>1, <1>2 DEF Saved, TypeOK, Entries
<1>5. /\ work'[s] = Idle
      /\ \A t \in Sessions \ {s} :
           IF work[t] # Idle /\ work[t].file = w.file
           THEN work'[t] = [work[t] EXCEPT !.missed = @ \cup {w.key}]
           ELSE work'[t] = work[t]
  BY DEF Saved
<1>6. \A t \in Sessions : work'[t] # Idle =>
        /\ t # s /\ work[t] # Idle /\ work'[t] \in Holding
        /\ work'[t].step = work[t].step /\ work'[t].file = work[t].file
        /\ work'[t].entries = work[t].entries /\ work'[t].key = work[t].key
        /\ work[t].missed \subseteq work'[t].missed
        /\ work[t].file = w.file => w.key \in work'[t].missed
  <2> SUFFICES ASSUME NEW t \in Sessions, work'[t] # Idle
               PROVE  /\ t # s /\ work[t] # Idle /\ work'[t] \in Holding
                      /\ work'[t].step = work[t].step /\ work'[t].file = work[t].file
                      /\ work'[t].entries = work[t].entries /\ work'[t].key = work[t].key
                      /\ work[t].missed \subseteq work'[t].missed
                      /\ work[t].file = w.file => w.key \in work'[t].missed
    OBVIOUS
  <2>1. t # s /\ work[t] # Idle /\ work[t] \in Holding
    BY <1>1, <1>5 DEF TypeOK
  <2>2. CASE work[t].file = w.file
    <3>1. work'[t] = [work[t] EXCEPT !.missed = @ \cup {w.key}]
      BY <1>5, <2>1, <2>2
    <3> QED
      BY <1>2, <2>1, <3>1 DEF Holding
  <2>3. CASE work[t].file # w.file
    BY <1>5, <2>1, <2>3
  <2> QED
    BY <2>2, <2>3
<1>7. \A t \in Sessions : work'[t] = Idle \/ work'[t] \in Holding
  BY <1>6
<1> HIDE DEF w
<1>8. TypeOK'
  <2>1. file' \in [Files -> Content]
    BY <1>1, <1>2, ContentTypes DEF TypeOK, w
  <2>2. saved' \in Entries
    BY <1>1, <1>2, <1>4 DEF Saved, TypeOK, Entries, w
  <2>3. work' \in [Sessions -> {Idle} \cup Holding]
    <3>1. work' = [t \in Sessions |-> work'[t]]
      BY DEF Saved
    <3> QED
      BY <1>7, <3>1
  <2> QED
    BY <1>1, <1>2, <1>4, <2>1, <2>2, <2>3 DEF TypeOK
<1>9. KeysOK'
  BY <1>5, <1>6, IdleIsNot DEF Inv, KeysOK, Chosen
<1>10. EntriesOK'
  BY <1>1, <1>3, <1>6, Readability DEF Inv, EntriesOK, w
<1>11. DamageExplained'
  <2> SUFFICES ASSUME NEW f \in Files, ~Readable(f)'
               PROVE  f \in damaged \/ \E t \in Sessions : Writing(t, f)'
    BY DEF DamageExplained
  <2>1. f # w.file /\ ~Readable(f)
    BY <1>3, Readability DEF Readable
  <2>2. f \in damaged \/ \E t \in Sessions : Writing(t, f)
    BY <2>1 DEF Inv, DamageExplained
  <2>3. ASSUME NEW t \in Sessions, Writing(t, f) PROVE Writing(t, f)'
    BY <1>5, <2>1, <2>3 DEF Writing, w
  <2> QED
    BY <2>2, <2>3
<1>12. HeldSaved'
  <2> SUFFICES ASSUME NEW t \in Sessions, work'[t] # Idle, NEW k \in Keys, FileOf(k) = work'[t].file
               PROVE  \/ work'[t].entries[k] = saved'[k]
                      \/ k \in work'[t].missed \cup overwritten'
                      \/ Chosen(t)' /\ k = work'[t].key
    BY DEF HeldSaved
  <2>1. CASE k = w.key
    BY <1>2, <1>6, <2>1
  <2>2. CASE k # w.key
    <3>1. \/ work[t].entries[k] = saved[k]
          \/ k \in work[t].missed \cup overwritten
          \/ Chosen(t) /\ k = work[t].key
      BY <1>6 DEF Inv, HeldSaved
    <3> QED
      BY <1>4, <1>6, <2>2, <3>1 DEF Chosen
  <2> QED
    BY <2>1, <2>2
<1>13. SavedIsStored'
  <2> SUFFICES ASSUME NEW k \in Keys, k \notin overwritten', Readable(FileOf(k))'
               PROVE  file'[FileOf(k)].entries[k] = saved'[k]
    BY DEF SavedIsStored
  <2>1. CASE FileOf(k) # w.file
    BY <1>2, <1>3, <1>4, <2>1, FileOfType DEF Inv, SavedIsStored, Readable
  <2>2. CASE FileOf(k) = w.file
    <3>1. file'[FileOf(k)].entries[k] = w.entries[k]
      BY <1>3, <2>2, Readability
    <3>2. k = w.key \/ (k \notin overwritten /\ k \notin w.missed)
      BY <1>4
    <3>3. k # w.key => w.entries[k] = saved[k]
      BY <1>1, <2>2, <3>2 DEF Inv, HeldSaved, w
    <3> QED
      BY <1>4, <3>1, <3>3
  <2> QED
    BY <2>1, <2>2
<1>14. \A k \in Keys : saved[k] # NoEntry => saved'[k] # NoEntry
  BY <1>2, <1>4
<1>15. KnownOK'
  <2>1. ASSUME NEW f \in Files, NEW k \in Keys, file'[f].entries[k] # NoEntry
        PROVE  saved'[k] # NoEntry
    <3>1. CASE f # w.file
      BY <1>3, <1>14, <2>1, <3>1 DEF Inv, KnownOK
    <3>2. CASE f = w.file /\ k # w.key
      BY <1>1, <1>3, <1>14, <2>1, <3>2, Readability DEF Inv, KnownOK, w
    <3>3. CASE k = w.key
      BY <1>2, <1>4, <3>3
    <3> QED
      BY <3>1, <3>2, <3>3
  <2>2. ASSUME NEW t \in Sessions, work'[t] # Idle, NEW k \in Keys, work'[t].entries[k] # NoEntry
        PROVE  saved'[k] # NoEntry \/ (Chosen(t)' /\ k = work'[t].key)
    BY <1>6, <1>14, <2>2 DEF Inv, KnownOK, Chosen
  <2> QED
    BY <2>1, <2>2 DEF KnownOK
<1> QED
  BY <1>8, <1>9, <1>10, <1>11, <1>12, <1>13, <1>15 DEF Inv

(* A session that ends without a save takes nothing from what was saved, and  *)
(* leaves its file as it is or in a state in which nobody can read it.        *)
LEMMA EndKeeps ==
  ASSUME Inv, NEW s \in Sessions, work[s] # Idle, NEW content \in {file[work[s].file], Garbled},
         work' = [work EXCEPT ![s] = Idle],
         file' = [file EXCEPT ![work[s].file] = content],
         \/ damaged' = damaged \cup {work[s].file}
         \/ damaged' = damaged /\ content = file[work[s].file] /\ work[s].step # "write",
         UNCHANGED <<book, changes, saved, overwritten>>
  PROVE  Inv'
<1> DEFINE f == work[s].file
<1>1. TypeOK /\ f \in Files
  BY DEF Inv, TypeOK, Holding
<1>2. /\ file'[f] = content /\ \A g \in Files \ {f} : file'[g] = file[g]
      /\ file[f] \in Content /\ content \in Content
  BY <1>1, ContentTypes DEF TypeOK
<1>3. work'[s] = Idle /\ \A t \in Sessions \ {s} : work'[t] = work[t]
  BY <1>1 DEF TypeOK
<1>4. TypeOK'
  BY <1>1, <1>2 DEF TypeOK
<1> HIDE DEF f
<1>5. KeysOK'
  BY <1>3, IdleIsNot DEF Inv, KeysOK, Chosen
<1>6. EntriesOK'
  BY <1>2, <1>3, NoEntriesType, Readability DEF Inv, EntriesOK, EntryFits, f
<1>7. DamageExplained'
  BY <1>1, <1>2, <1>3 DEF Inv, DamageExplained, Readable, Writing, f
<1>8. HeldSaved'
  BY <1>3 DEF Inv, HeldSaved, Chosen
<1>9. SavedIsStored'
  BY <1>1, <1>2, FileOfType, Readability DEF Inv, SavedIsStored, Readable, f
<1>10. KnownOK'
  BY <1>2, <1>3, NoEntriesType, Readability DEF Inv, KnownOK, Chosen, f
<1> QED
  BY <1>4, <1>5, <1>6, <1>7, <1>8, <1>9, <1>10 DEF Inv

(* A write lands, or leaves its file garbled and known to be. *)
LEMMA WriteKeeps ==
  ASSUME Inv, NEW s \in Sessions, Write(s)
  PROVE  Inv'
<1> DEFINE f == work[s].file
<1>1. work[s].step = "write" /\ work[s] # Idle /\ UNCHANGED <<book, changes>>
  BY IdleIsNot DEF Write
<1>2. PICK content \in Landed(s) :
        /\ file' = [file EXCEPT ![f] = content]
        /\ \/ content # Garbled /\ Saved(s) /\ UNCHANGED damaged
           \/ /\ content = Garbled
              /\ damaged' = damaged \cup {f}
              /\ work' = [work EXCEPT ![s] = Idle]
              /\ UNCHANGED <<saved, overwritten>>
  BY DEF Write
<1>3. CASE content = Garbled
  BY <1>1, <1>2, <1>3, EndKeeps
<1>4. CASE content # Garbled
  <2>1. content = Whole(work[s].entries)
    BY <1>4 DEF Landed
  <2> QED
    BY <1>1, <1>2, <1>4, <2>1, SaveKeeps
<1> QED
  BY <1>3, <1>4

(* A stop leaves the file it was writing known to be damaged. *)
LEMMA StopKeeps ==
  ASSUME Inv, NEW s \in Sessions, Stop(s)
  PROVE  Inv'
<1> DEFINE f == work[s].file
<1>1. /\ work[s] # Idle /\ work' = [work EXCEPT ![s] = Idle]
      /\ UNCHANGED <<book, changes, saved, overwritten>>
  BY DEF Stop
<1>2. TypeOK /\ file = [file EXCEPT ![f] = file[f]]
  BY DEF Inv, TypeOK
<1>3. CASE work[s].step = "write" /\ file' = [file EXCEPT ![f] = Garbled]
  BY <1>1, <1>3, EndKeeps DEF Stop
<1>4. CASE work[s].step = "write" /\ file' = file
  BY <1>1, <1>2, <1>4, EndKeeps DEF Stop
<1>5. CASE work[s].step # "write"
  <2>1. file' = file /\ damaged' = damaged
    BY <1>5 DEF Stop
  <2> QED
    BY <1>1, <1>2, <1>5, <2>1, EndKeeps
<1> QED
  BY <1>3, <1>4, <1>5 DEF Stop

(* Every step of every session keeps the invariant. *)
LEMMA StepKeeps == Inv /\ [Next]_vars => Inv'
<1> SUFFICES ASSUME Inv, [Next]_vars PROVE Inv'
  OBVIOUS
<1>1. ASSUME NEW b \in Sheets \cup {Unopenable}, Replace(b) PROVE Inv'
  BY <1>1, ReplaceKeeps
<1>2. ASSUME NEW s \in Sessions, NEW f \in Files, Load(s, f) PROVE Inv'
  BY <1>2, LoadKeeps
<1>3. ASSUME NEW s \in Sessions, NEW k \in Kinds, ConfirmMapping(s, k) PROVE Inv'
  <2>1. PICK column \in Choices(book) : Change(s, k, Confirmed(book, column))
    BY <1>3 DEF ConfirmMapping
  <2>2. IsConfirmed(Confirmed(book, column)) /\ k \in Keys
    BY <1>3 DEF ConfirmMapping, IsConfirmed, Keys
  <2>3. Confirmed(book, column) # NoEntry
    BY <2>2, ConfirmedType
  <2> QED
    BY <2>1, <2>2, <2>3, ChangeKeeps DEF EntryFits
<1>4. ASSUME NEW s \in Sessions, NEW f \in Fields, ConfirmRule(s, f) PROVE Inv'
  <2>1. PICK rule \in RuleChoices : Change(s, f, rule)
    BY <1>4 DEF ConfirmRule
  <2>2. rule # NoEntry /\ f \in Keys
    BY DEF Keys
  <2> QED
    BY <2>1, <2>2, ChangeKeeps DEF EntryFits
<1>5. ASSUME NEW s \in Sessions, Truncate(s) PROVE Inv'
  BY <1>5, TruncateKeeps
<1>6. ASSUME NEW s \in Sessions, Write(s) PROVE Inv'
  BY <1>6, WriteKeeps
<1>7. ASSUME NEW s \in Sessions, Stop(s) PROVE Inv'
  BY <1>7, StopKeeps
<1>8. CASE UNCHANGED vars
  <2>1. /\ file' = file /\ book' = book /\ work' = work /\ changes' = changes
        /\ saved' = saved /\ overwritten' = overwritten /\ damaged' = damaged
    BY <1>8 DEF vars
  <2>2. TypeOK' /\ KeysOK' /\ EntriesOK'
    BY <2>1 DEF Inv, TypeOK, KeysOK, EntriesOK, Chosen
  <2>3. DamageExplained' /\ SavedIsStored'
    BY <2>1 DEF Inv, DamageExplained, SavedIsStored, Readable, Writing
  <2>4. HeldSaved' /\ KnownOK'
    BY <2>1 DEF Inv, HeldSaved, KnownOK, Chosen
  <2> QED
    BY <2>2, <2>3, <2>4 DEF Inv
<1> QED
  BY <1>1, <1>2, <1>3, <1>4, <1>5, <1>6, <1>7, <1>8 DEF Next

(* Every reachable state satisfies the inductive invariant. *)
LEMMA Always == Spec => []Inv
BY Initially, StepKeeps, PTL DEF Spec

(* Types, for any sessions, headers, kinds, fields and rules. *)
THEOREM TypeCorrect == Spec => []TypeOK
<1>1. Inv => TypeOK
  BY DEF Inv
<1> QED
  BY Always, <1>1, PTL

(* A configuration file is unreadable only while somebody writes it, or after *)
(* a write that was broken off or overlapped another.                         *)
THEOREM DamageIsExplained == Spec => []DamageExplained
<1>1. Inv => DamageExplained
  BY DEF Inv
<1> QED
  BY Always, <1>1, PTL

(* An entry whose save finished stays in the file until a save by a session   *)
(* that had loaded it before leaves it out.                                   *)
THEOREM SavesStay == Spec => []SavedIsStored
<1>1. Inv => SavedIsStored
  BY DEF Inv
<1> QED
  BY Always, <1>1, PTL

------------------------------------------------------------------------------
(* A Fail of a status cell has its rule, and the rule declares it.            *)
LEMMA FailIsDeclared ==
  ASSUME NEW rule \in StatusValueRule \cup {NoRule}, NEW c \in Cells,
         ClassifyStatusValue(c, rule) = "Fail"
  PROVE  /\ rule # NoRule /\ c.text \notin BlankMarkers
         /\ Adverse(c, rule) \/ TakenForNumber(c, rule)
<1>1. rule # NoRule /\ c.text \notin BlankMarkers /\ Fails(c, rule)
  BY DEF ClassifyStatusValue
<1>2. /\ rule.mode \in {"text_values", "numeric_threshold"}
      /\ rule.threshold \in Int \cup {NoThreshold}
      /\ c.float \in Int \cup {NotNumeric, NaN}
  BY <1>1 DEF StatusValueRule
<1>3. CASE rule.mode = "text_values"
  BY <1>1, <1>3 DEF Fails, Compared, Adverse
<1>4. CASE rule.mode = "numeric_threshold"
  <2>1. Compared(c, rule) /\ ~Reaches(c.float, rule.threshold)
    BY <1>1, <1>4 DEF Fails
  <2>2. c.float # NotNumeric /\ rule.threshold \in Int
    BY <1>2, <2>1 DEF Compared
  <2>3. CASE c.float = NaN
    BY <1>1, <1>4, <2>3 DEF TakenForNumber
  <2>4. CASE c.float # NaN
    <3>1. c.float \in Int
      BY <1>2, <2>2, <2>4
    <3>2. c.float < rule.threshold
      BY <2>1, <2>2, <2>4, <3>1 DEF Reaches
    <3> QED
      BY <1>1, <1>4, <2>2, <3>1, <3>2 DEF Adverse
  <2> QED
    BY <2>3, <2>4
<1> QED
  BY <1>2, <1>3, <1>4

(* Whatever becomes of the file of rules, no status is read as a failure      *)
(* without a rule saved for its field that declares the value a failure: the   *)
(* rule saved last, unless an older load has overwritten it.  A text that      *)
(* float() takes for NaN is the exception.                                     *)
THEOREM NeverAdverseHolds == Spec => []NeverAdverse
<1>1. Inv => NeverAdverse
  <2> SUFFICES ASSUME Inv, NEW f \in Fields, NEW c \in Cells,
                      Readable("status_mappings"),
                      ClassifyStatusValue(c, file["status_mappings"].entries[f]) = "Fail"
               PROVE  /\ saved[f] # NoEntry /\ c.text \notin BlankMarkers
                      /\ f \notin overwritten =>
                           Adverse(c, saved[f]) \/ TakenForNumber(c, saved[f])
    BY DEF NeverAdverse
  <2> DEFINE rule == file["status_mappings"].entries[f]
  <2>1. f \in Keys /\ f \notin Kinds /\ "status_mappings" \in Files
        /\ FileOf(f) = "status_mappings"
    BY DEF Keys, Files, FileOf
  <2>2. rule \in StatusValueRule \cup {NoRule}
    BY <2>1 DEF Inv, EntriesOK, EntryFits
  <2>3. /\ rule # NoRule /\ c.text \notin BlankMarkers
        /\ Adverse(c, rule) \/ TakenForNumber(c, rule)
    BY <2>2, FailIsDeclared
  <2>4. saved[f] # NoEntry
    BY <2>1, <2>3 DEF Inv, KnownOK
  <2>5. f \notin overwritten => saved[f] = rule
    BY <2>1 DEF Inv, SavedIsStored
  <2> QED
    BY <2>3, <2>4, <2>5
<1> QED
  BY Always, <1>1, PTL

------------------------------------------------------------------------------
(* Validating a confirmed mapping against any later sheet of the workbook. *)
LEMMA Drift ==
  ASSUME NEW sheet \in Sheets, NEW column \in Choices(sheet), NEW now \in Sheets
  PROVE  LET m == Confirmed(sheet, column) IN
           /\ NoIssues(m, now) => Signature(now) = m.signature
           /\ Signature(now) = m.signature /\ Plain(m, now) => NoIssues(m, now)
           /\ Errors(m, now) = {} =>
                \A f \in Fields \ Unresolved(m, Fields) : m.column[f] \in RowKeys(now)
<1> DEFINE m == Confirmed(sheet, column)
<1>1. m.raw = Raw(sheet) /\ m.signature = Signature(sheet) /\ m.column = column
  BY DEF Confirmed
<1>2. /\ column \in [Fields -> Signature(sheet) \cup {Unmapped}]
      /\ Raw(sheet) \subseteq Headers /\ Raw(now) \subseteq Headers
  <2>1. sheet \in Seq(Headers) /\ now \in Seq(Headers)
    OBVIOUS
  <2> QED
    BY <2>1 DEF Choices, Raw
<1>3. /\ \A h \in Names(now) : h \in Headers /\ Normal[h] = h
      /\ \A h \in Names(sheet) : h \in Headers
  BY <1>2 DEF Names
<1> HIDE DEF m
<1>4. ASSUME NoIssues(m, now) PROVE Signature(now) = Signature(sheet)
  <2>1. Names(now) = Raw(sheet)
    <3>1. Errors(m, now) = {} /\ Added(m, now) = {} /\ Removed(m, now) = {}
      BY <1>4 DEF NoIssues
    <3>2. Removed(m, now) = m.raw \ Names(now)
      BY <3>1 DEF Removed
    <3> QED
      BY <1>1, <3>1, <3>2 DEF Added
  <2>2. Names(sheet) = Raw(sheet)
    BY <1>3, <2>1 DEF Names
  <2> QED
    BY <2>1, <2>2 DEF Signature
<1>5. ASSUME Signature(now) = Signature(sheet), Plain(m, now) PROVE NoIssues(m, now)
  <2>1. Names(sheet) = Raw(sheet)
    BY <1>1, <1>5 DEF Plain, Names
  <2>2. Names(now) = Raw(sheet)
    <3>1. Names(now) \ {Blank} = Names(sheet) \ {Blank}
      BY <1>5 DEF Signature
    <3>2. Blank \in Raw(sheet) <=> Blank \in Names(now)
      BY <1>1, <1>5 DEF Plain
    <3>3. ASSUME NEW h PROVE h \in Names(now) <=> h \in Raw(sheet)
      <4>1. CASE h = Blank
        BY <3>2, <4>1
      <4>2. CASE h # Blank
        <5>1. h \in Names(now) \ {Blank} <=> h \in Names(sheet) \ {Blank}
          BY <3>1
        <5> QED
          BY <2>1, <4>2, <5>1
      <4> QED
        BY <4>1, <4>2
    <3> QED
      BY <3>3
  <2>3. Errors(m, now) = {}
    BY <1>1, <1>2, <1>5 DEF Errors, Unresolved, Signature
  <2> QED
    BY <1>1, <2>2, <2>3 DEF NoIssues, Added, Removed
<1>6. ASSUME Errors(m, now) = {}, NEW f \in Fields \ Unresolved(m, Fields)
      PROVE  m.column[f] \in RowKeys(now)
  <2>1. m.column[f] \in Names(now)
    BY <1>6 DEF Errors
  <2>2. m.column[f] \in Signature(sheet)
    BY <1>1, <1>2 DEF Unresolved
  <2>3. m.column[f] # Blank
    BY <2>2 DEF Signature
  <2>4. PICK h \in Raw(now) : m.column[f] = Normal[h]
    BY <2>1 DEF Names
  <2>5. h # Blank
    BY <2>3, <2>4
  <2> QED
    BY <2>4, <2>5 DEF RowKeys
<1>7. m.signature = Signature(sheet)
  BY <1>1
<1> QED
  BY <1>4, <1>5, <1>6, <1>7 DEF m

(* Whatever is saved by whom, validation tells whether the columns a stored   *)
(* mapping was confirmed on are those of the workbook, up to stray white      *)
(* space, and a mapping without an error finds its columns in every row.      *)
THEOREM DriftIsSeen == Spec => []DriftSeen
<1>1. Inv => DriftSeen
  <2> SUFFICES ASSUME Inv, NEW m \in Mappings, book # Unopenable
               PROVE  /\ NoIssues(m, book) => Signature(book) = m.signature
                      /\ Signature(book) = m.signature /\ Plain(m, book) => NoIssues(m, book)
                      /\ Errors(m, book) = {} =>
                           \A f \in Fields \ Unresolved(m, Fields) : m.column[f] \in RowKeys(book)
    BY DEF DriftSeen
  <2>1. book \in Sheets
    BY DEF Inv, TypeOK
  <2>2. IsConfirmed(m)
    BY DEF Mappings, Inv, EntriesOK, EntryFits, Files, Keys
  <2> QED
    BY <2>1, <2>2, Drift DEF IsConfirmed
<1> QED
  BY Always, <1>1, PTL

------------------------------------------------------------------------------
(* suggest_classification compares shares of matched keywords.  Comparing    *)
(* them crosswise is an order: if x/p is at most y/q and above z/r, then y/q  *)
(* is above z/r.                                                             *)
LEMMA SharesOrdered ==
  ASSUME NEW x \in Nat, NEW y \in Nat, NEW z \in Nat,
         NEW p \in Nat \ {0}, NEW q \in Nat \ {0}, NEW r \in Nat \ {0},
         ~(x * q > y * p), x * r > z * p
  PROVE  y * r > z * q
<1>1. /\ x * q \in Nat /\ y * p \in Nat /\ x * r \in Nat /\ z * p \in Nat
      /\ y * r \in Nat /\ z * q \in Nat
  OBVIOUS
<1>2. (x * q) * r <= (y * p) * r
  BY <1>1
<1>3. (x * r) * q > (z * p) * q
  BY <1>1
<1>4. /\ (y * p) * r = (y * r) * p
      /\ (x * q) * r = (x * r) * q
      /\ (z * p) * q = (z * q) * p
  OBVIOUS
<1>5. (y * r) * p > (z * q) * p
  BY <1>1, <1>2, <1>3, <1>4
<1>6. QED
  BY <1>1, <1>5

(* A share at least as high as one that reaches the floor reaches it too.    *)
LEMMA FloorReached ==
  ASSUME NEW x \in Nat, NEW y \in Nat, NEW p \in Nat \ {0}, NEW q \in Nat \ {0},
         100 * x >= 34 * p, ~(x * q > y * p)
  PROVE  100 * y >= 34 * q
<1>1. x * q \in Nat /\ y * p \in Nat
  OBVIOUS
<1>2. (100 * x) * q >= (34 * p) * q
  OBVIOUS
<1>3. (100 * x) * q = 100 * (x * q) /\ (34 * p) * q = (34 * q) * p
  OBVIOUS
<1>4. (100 * y) * p = 100 * (y * p) /\ 100 * (x * q) <= 100 * (y * p)
  BY <1>1
<1>5. (100 * y) * p >= (34 * q) * p
  BY <1>2, <1>3, <1>4
<1>6. QED
  BY <1>5

Shown(i, sheet) == Cardinality(Matched(KindOrder[i], sheet))
Asked(i) == Cardinality(Keywords[KindOrder[i]])

(* The i-th kind beats the j-th on a sheet; those that beat the i-th.        *)
Above(i, j, sheet) == Beats(KindOrder[i], KindOrder[j], sheet)
AllAbove(i, sheet) == {j \in DOMAIN KindOrder : Above(j, i, sheet)}

(* The numbers that are compared.                                            *)
LEMMA ShareTypes ==
  ASSUME NEW sheet, NEW i \in DOMAIN KindOrder
  PROVE  /\ Shown(i, sheet) \in Nat /\ Asked(i) \in Nat \ {0}
         /\ IsFiniteSet(Matched(KindOrder[i], sheet))
<1>1. KindOrder[i] \in Kinds
  BY DEF Kinds
<1>2. IsFiniteSet(Keywords[KindOrder[i]]) /\ Keywords[KindOrder[i]] # {}
  BY <1>1
<1>3. IsFiniteSet(Matched(KindOrder[i], sheet))
  BY <1>2, FS_Subset DEF Matched
<1>4. QED
  BY <1>2, <1>3, FS_CardinalityType, FS_EmptySet DEF Shown, Asked

(* Beating is an order of the kinds. *)
LEMMA AboveOrdered ==
  ASSUME NEW sheet, NEW i \in DOMAIN KindOrder, NEW j \in DOMAIN KindOrder,
         NEW l \in DOMAIN KindOrder
  PROVE  /\ ~Above(l, i, sheet) /\ Above(l, j, sheet) => Above(i, j, sheet)
         /\ ~(Above(i, j, sheet) /\ Above(j, i, sheet))
<1>1. \A m, n \in {i, j, l} :
        Above(m, n, sheet) <=> Shown(m, sheet) * Asked(n) > Shown(n, sheet) * Asked(m)
  BY DEF Above, Beats, Shown, Asked
<1>2. /\ Shown(i, sheet) \in Nat /\ Shown(j, sheet) \in Nat /\ Shown(l, sheet) \in Nat
      /\ Asked(i) \in Nat \ {0} /\ Asked(j) \in Nat \ {0} /\ Asked(l) \in Nat \ {0}
  BY ShareTypes
<1>3. ~Above(l, i, sheet) /\ Above(l, j, sheet) => Above(i, j, sheet)
  BY <1>1, <1>2, SharesOrdered
<1>4. ~(Above(i, j, sheet) /\ Above(j, i, sheet))
  <2>1. Shown(i, sheet) * Asked(j) \in Nat /\ Shown(j, sheet) * Asked(i) \in Nat
    BY <1>2
  <2>2. QED
    BY <1>1, <2>1
<1>5. QED
  BY <1>3, <1>4

(* Some kind is beaten by none: one that as few others as possible beat.     *)
LEMMA HighestExists ==
  ASSUME NEW sheet, DOMAIN KindOrder # {}
  PROVE  \E i \in DOMAIN KindOrder : \A j \in DOMAIN KindOrder : ~Above(j, i, sheet)
<1> DEFINE D == DOMAIN KindOrder
           T == {Cardinality(AllAbove(i, sheet)) : i \in D}
<1>1. \A i \in D : IsFiniteSet(AllAbove(i, sheet)) /\ Cardinality(AllAbove(i, sheet)) \in Nat
  <2>1. Len(KindOrder) \in Nat /\ D = 1 .. Len(KindOrder)
    OBVIOUS
  <2>2. IsFiniteSet(D)
    BY <2>1, FS_Interval
  <2>3. \A i \in D : AllAbove(i, sheet) \subseteq D
    BY DEF AllAbove
  <2>4. QED
    BY <2>2, <2>3, FS_Subset, FS_CardinalityType
<1>2. T \subseteq Nat /\ T # {}
  BY <1>1
<1>3. PICK R : IsWellFoundedOn(R, Nat) /\ R = {p \in Nat \X Nat : p[1] < p[2]}
  BY NatLessThanWellFounded DEF OpToRel
<1>4. PICK t \in T : \A u \in T : ~(u < t)
  <2> HIDE DEF T
  <2>1. PICK t \in T : \A u \in T : <<u, t>> \notin R
    BY <1>2, <1>3, WFMin
  <2>2. QED
    BY <1>2, <1>3, <2>1
<1>5. PICK i \in D : t = Cardinality(AllAbove(i, sheet))
  BY <1>4
<1>6. ASSUME NEW j \in D, Above(j, i, sheet) PROVE FALSE
  <2>1. AllAbove(j, sheet) \subseteq AllAbove(i, sheet)
    <3> SUFFICES ASSUME NEW l \in D, Above(l, j, sheet) PROVE Above(l, i, sheet)
      BY DEF AllAbove
    <3>1. CASE ~Above(l, i, sheet)
      BY <1>6, <3>1, AboveOrdered
    <3>2. QED
      BY <3>1
  <2>2. j \in AllAbove(i, sheet) /\ j \notin AllAbove(j, sheet)
    BY <1>6, AboveOrdered DEF AllAbove
  <2>3. AllAbove(j, sheet) # AllAbove(i, sheet)
    BY <2>2
  <2>4. Cardinality(AllAbove(j, sheet)) < Cardinality(AllAbove(i, sheet))
    BY <1>1, <2>1, <2>3, FS_Subset
  <2>5. QED
    BY <1>4, <1>5, <2>4
<1>7. QED
  BY <1>6

(* A least index exists in every set of indexes. *)
LEMMA LeastExists ==
  ASSUME NEW S, S \subseteq Nat, S # {}
  PROVE  \E i \in S : \A j \in S : ~(j < i)
<1>1. PICK R : IsWellFoundedOn(R, Nat) /\ R = {p \in Nat \X Nat : p[1] < p[2]}
  BY NatLessThanWellFounded DEF OpToRel
<1>2. PICK i \in S : \A j \in S : <<j, i>> \notin R
  BY <1>1, WFMin
<1>3. QED
  BY <1>1, <1>2

(* A kind is suggested just when some kind reaches the floor.                *)
LEMMA SuggestedIff ==
  ASSUME NEW sheet
  PROVE  Suggested(sheet) # {} <=> \E i \in DOMAIN KindOrder : Confident(KindOrder[i], sheet)
<1> DEFINE D == DOMAIN KindOrder
<1>1. Suggested(sheet) # {} => \E i \in D : Confident(KindOrder[i], sheet)
  BY DEF Suggested
<1>2. ASSUME NEW c \in D, Confident(KindOrder[c], sheet) PROVE Suggested(sheet) # {}
  <2> DEFINE S == {i \in D : \A j \in D : ~Above(j, i, sheet)}
  <2>1. D \subseteq Nat
    <3>1. Len(KindOrder) \in Nat /\ D = 1 .. Len(KindOrder)
      OBVIOUS
    <3>2. QED
      BY <3>1
  <2>2. S # {}
    BY HighestExists
  <2>3. PICK i \in S : \A j \in S : ~(j < i)
    <3> HIDE DEF S
    <3>1. S \subseteq Nat
      BY <2>1 DEF S
    <3>2. QED
      BY <2>2, <3>1, LeastExists
  <2>4. i \in D /\ \A j \in D : ~Above(j, i, sheet)
    OBVIOUS
  <2>5. Confident(KindOrder[i], sheet)
    <3>1. ~(Shown(c, sheet) * Asked(i) > Shown(i, sheet) * Asked(c))
      BY <2>4 DEF Above, Beats, Shown, Asked
    <3>2. 100 * Shown(c, sheet) >= 34 * Asked(c)
      BY <1>2 DEF Confident, Shown, Asked
    <3>3. 100 * Shown(i, sheet) >= 34 * Asked(i)
      BY <2>4, <3>1, <3>2, ShareTypes, FloorReached
    <3>4. QED
      BY <3>3 DEF Confident, Shown, Asked
  <2>6. ASSUME NEW j \in D, j < i PROVE Above(i, j, sheet)
    <3>1. j \notin S
      BY <2>3, <2>6
    <3>2. PICK l \in D : Above(l, j, sheet)
      BY <3>1
    <3>3. QED
      BY <2>4, <3>2, AboveOrdered
  <2>7. KindOrder[i] \in Suggested(sheet)
    BY <2>4, <2>5, <2>6 DEF Suggested, Above
  <2>8. QED
    BY <2>7
<1>3. QED
  BY <1>1, <1>2

(* More columns: each kind matches as much as before, and every mapped       *)
(* column that was there still is.                                           *)
LEMMA Growth ==
  ASSUME NEW old, NEW new, Names(old) \subseteq Names(new)
  PROVE  /\ Suggested(old) # {} => Suggested(new) # {}
         /\ \A m : Errors(m, new) \subseteq Errors(m, old)
<1>1. ASSUME NEW i \in DOMAIN KindOrder, Confident(KindOrder[i], old)
      PROVE  Confident(KindOrder[i], new)
  <2>1. Matched(KindOrder[i], old) \subseteq Matched(KindOrder[i], new)
    BY DEF Matched, Signature
  <2>2. Shown(i, old) <= Shown(i, new)
    BY <2>1, ShareTypes, FS_Subset DEF Shown
  <2>3. 100 * Shown(i, old) >= 34 * Asked(i)
    BY <1>1 DEF Confident, Shown, Asked
  <2>4. 100 * Shown(i, new) >= 34 * Asked(i)
    BY <2>2, <2>3, ShareTypes
  <2>5. QED
    BY <2>4 DEF Confident, Shown, Asked
<1>2. QED
  BY <1>1, SuggestedIff DEF Errors

(* A new export of the workbook that only adds columns breaks no saved        *)
(* mapping, and a sheet recognized before is recognized still: for any       *)
(* headers, keywords and number of kinds.                                    *)
THEOREM GrowthIsHarmless == Spec => GrowthHarmless
<1>1. [Next]_vars =>
        [(book # Unopenable /\ book' # Unopenable /\ Names(book) \subseteq Names(book'))
         => /\ Suggested(book) # {} => Suggested(book') # {}
            /\ \A m \in Mappings : Errors(m, book') \subseteq Errors(m, book)]_book
  BY Growth
<1>2. QED
  BY <1>1, PTL DEF Spec, GrowthHarmless
=============================================================================
