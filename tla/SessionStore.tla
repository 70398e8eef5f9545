---------------------------- MODULE SessionStore ----------------------------
(***************************************************************************)
(* The saved sessions (crates/cli/src/session_store.rs), the save after a  *)
(* turn and the pages of session/list (main.rs).                           *)
(*                                                                         *)
(* Several processes share the directory: editors' agents, the terminal    *)
(* client, headless runs.  Within a process the workspace lock lets one    *)
(* save go on at a time.  A process may die between any two file           *)
(* operations.  What a history holds is left out.                          *)
(***************************************************************************)
EXTENDS Selections, SequencesExt

CONSTANTS
    Processes,      \* process ids
    Saved,          \* session ids, as numbers: the list breaks ties by id
    Dirs,           \* working directories
    NoDir,
    PageSize,       \* SESSION_LIST_PAGE_SIZE
    MaxSaves        \* saves begun

ASSUME StoreAssumption ==
    /\ Saved \subseteq Nat /\ IsFiniteSet(Saved) /\ NoDir \notin Dirs
    /\ PageSize \in Nat \ {0} /\ MaxSaves \in Nat

VARIABLES
    files,      \* <id>.jsonl
    temps,      \* .<id>.<pid>.tmp, per id and process
    sidecars,   \* <id>.meta.json: the directory
    savers,     \* per process: persist_session
    listing,    \* a client that pages through session/list
    clock,      \* the time files are stamped with
    saves       \* saves begun

storeVars == <<files, temps, sidecars, savers, listing, clock, saves>>

\* A file: whether one save wrote it from beginning to end, and when.
NoFile == [whole |-> FALSE, modified |-> 0]
NoTemp == [save |-> 0, whole |-> FALSE, modified |-> 0]

NoSave == [pc |-> "idle", id |-> 0, save |-> 0]

\* `untouched` is a history variable: what qualified when the listing began
\* and was not written since.
NoListing == [pc |-> "idle", dir |-> NoDir, after |-> << >>, seen |-> << >>, untouched |-> {}]

\* Earlier processes left sessions behind.
StoreInit ==
    /\ \E old \in SUBSET Saved, dir \in Dirs :
         /\ files = [i \in Saved |-> IF i \in old THEN [whole |-> TRUE, modified |-> 1] ELSE NoFile]
         /\ sidecars = [i \in Saved |-> IF i \in old THEN dir ELSE NoDir]
    /\ temps = [f \in Saved \X Processes |-> NoTemp]
    /\ savers = [p \in Processes |-> NoSave]
    /\ listing = NoListing
    /\ clock = 1
    /\ saves = 0

-----------------------------------------------------------------------------
(* A save *)

\* Mutant: one temporary name for every process.
SharedTempOf(p, i) == <<i, CHOOSE q \in Processes : TRUE>>

\* The temporary file of write_atomic
TempOf(p, i) == <<i, p>>

\* write_atomic begins: the temporary file is created or cut to nothing.
BeginSave(p) ==
    /\ savers[p].pc = "idle" /\ saves < MaxSaves
    /\ \E i \in Saved :
         /\ savers' = [savers EXCEPT ![p] = [pc |-> "write", id |-> i, save |-> saves + 1]]
         /\ temps' = [temps EXCEPT ![TempOf(p, i)] = [NoTemp EXCEPT !.save = saves + 1]]
    /\ saves' = saves + 1
    /\ UNCHANGED <<files, sidecars, listing, clock>>

Temp(p) == TempOf(p, savers[p].id)

\* The rest of the history is written.  Another save into the same file would
\* leave a mixture.
WriteHistory(p) ==
    /\ savers[p].pc = "write"
    /\ \E tick \in {0, 1} :
         /\ clock' = clock + tick
         /\ temps' = [temps EXCEPT ![Temp(p)] = [@ EXCEPT !.whole = (temps[Temp(p)].save = savers[p].save),
                                                         !.modified = clock + tick]]
    /\ savers' = [savers EXCEPT ![p] = [@ EXCEPT !.pc = "rename"]]
    /\ UNCHANGED <<files, sidecars, listing, saves>>

\* Nothing is written after a failure, and the temporary file stays.
WriteFails(p) ==
    /\ savers[p].pc = "write"
    /\ savers' = [savers EXCEPT ![p] = NoSave]
    /\ UNCHANGED <<files, temps, sidecars, listing, clock, saves>>

Touch(i) == listing' = [listing EXCEPT !.untouched = @ \ {i}]

RenameHistory(p) ==
    LET i == savers[p].id
    IN  /\ savers[p].pc = "rename"
        /\ IF temps[Temp(p)] = NoTemp
           THEN savers' = [savers EXCEPT ![p] = NoSave] /\ UNCHANGED <<files, temps, listing>>
           ELSE /\ files' = [files EXCEPT ![i] = [whole |-> temps[Temp(p)].whole,
                                                modified |-> temps[Temp(p)].modified]]
                /\ temps' = [temps EXCEPT ![Temp(p)] = NoTemp]
                /\ savers' = [savers EXCEPT ![p] = [@ EXCEPT !.pc = "meta"]]
                /\ Touch(i)
        /\ UNCHANGED <<sidecars, clock, saves>>

\* save_meta, by the same means.  A session without recorded directory gets
\* none, and those of the terminal client have none.
SaveMeta(p) ==
    /\ savers[p].pc = "meta"
    /\ \E dir \in Dirs \cup {NoDir} :
         /\ sidecars' = IF dir = NoDir THEN sidecars ELSE [sidecars EXCEPT ![savers[p].id] = dir]
         /\ IF dir = NoDir THEN UNCHANGED listing ELSE Touch(savers[p].id)
    /\ savers' = [savers EXCEPT ![p] = NoSave]
    /\ UNCHANGED <<files, temps, clock, saves>>

Dies(p) ==
    /\ savers[p].pc # "idle"
    /\ savers' = [savers EXCEPT ![p] = NoSave]
    /\ UNCHANGED <<files, temps, sidecars, listing, clock, saves>>

\* session_store::delete: the history, then the sidecar.  A death in between
\* leaves a sidecar that nothing looks at.
DeleteSaved(i) ==
    /\ files[i] # NoFile
    /\ files' = [files EXCEPT ![i] = NoFile]
    /\ \/ sidecars' = [sidecars EXCEPT ![i] = NoDir]
       \/ UNCHANGED sidecars
    /\ Touch(i)
    /\ UNCHANGED <<temps, savers, clock, saves>>

-----------------------------------------------------------------------------
(* session/list *)

\* What is listed for a directory, or for all: sessions with a history and a
\* sidecar.
Qualify(dir) ==
    {i \in Saved : files[i] # NoFile /\ sidecars[i] # NoDir /\ (dir = NoDir \/ sidecars[i] = dir)}

\* The newest first, then by id.
Before(i, j) ==
    files[i].modified > files[j].modified \/ (files[i].modified = files[j].modified /\ i < j)

\* Mutant: the time alone says what comes after a cursor.
PrecedesByTime(after, i) == after = << >> \/ files[i].modified < after[1]

\* SessionListCursor::precedes: the time and the id of the last entry given.
Precedes(after, i) ==
    \/ after = << >>
    \/ files[i].modified < after[1]
    \/ files[i].modified = after[1] /\ i > after[2]

\* session_store::list, and of it what comes after the cursor.
Listed(dir, after) ==
    LET behind == {i \in Qualify(dir) : Precedes(after, i)}
    IN  Ranked(behind, [i \in behind |-> {j \in behind : ~Before(i, j)}])

\* session_list_page and handle_list_sessions: the page, and the cursor if
\* there is more.
Page(dir, after, seen, untouched) ==
    LET rest == Listed(dir, after)
        page == SubSeq(rest, 1, Min({PageSize, Len(rest)}))
    IN  IF Len(rest) > PageSize
        THEN listing' = [pc |-> "more", dir |-> dir, seen |-> seen \o page, untouched |-> untouched,
                         after |-> <<files[Last(page)].modified, Last(page)>>]
        ELSE listing' = [NoListing EXCEPT !.pc = "done", !.seen = seen \o page,
                                          !.untouched = untouched]

ListFirst ==
    /\ listing.pc = "idle"
    /\ \E dir \in Dirs \cup {NoDir} : Page(dir, << >>, << >>, Qualify(dir))
    /\ UNCHANGED <<files, temps, sidecars, savers, clock, saves>>

ListMore ==
    /\ listing.pc = "more"
    /\ Page(listing.dir, listing.after, listing.seen, listing.untouched)
    /\ UNCHANGED <<files, temps, sidecars, savers, clock, saves>>

Save(p) == \/ BeginSave(p) \/ WriteHistory(p) \/ WriteFails(p) \/ RenameHistory(p) \/ SaveMeta(p)
           \/ Dies(p)

StoreNext == (\E p \in Processes : Save(p)) \/ (\E i \in Saved : DeleteSaved(i)) \/ ListFirst \/ ListMore

StoreSpec == StoreInit /\ [][StoreNext]_storeVars

-----------------------------------------------------------------------------
(* Properties *)

\* A saved history is one that one save wrote from beginning to end, though
\* processes die in the middle and save the same session at once.
SavesAreWhole == \A i \in Saved : files[i] # NoFile => files[i].whole

\* A client that has all pages has every session that was there when it began
\* and was not saved or deleted since, once, whatever was saved or deleted in
\* between and however many were saved in the same instant.
PagesMissNothing ==
    listing.pc = "done" =>
        \A i \in listing.untouched : Cardinality({n \in DOMAIN listing.seen : listing.seen[n] = i}) = 1
=============================================================================
